---------------------------- MODULE Spec2Model ----------------------------
(***************************************************************************)
(* LexicMap: the packed k-mer codec (package util), the `index` command    *)
(* (cmd/index.go), the seed assigner's desert filling, the batch merger,   *)
(* the nearest-mask search and the read-binning utility (cmd/bin.go).      *)
(*                                                                         *)
(* A uint64 k-mer code is modelled as its 32 two-bit groups ("bases"),     *)
(* most significant first: code[1] holds bits 63..62, code[32] bits 1..0.  *)
(* Every shift count in the codec has the form (x << 1), so it is even and *)
(* moves whole bases; uint8 arithmetic is kept modulo 256.                 *)
(***************************************************************************)
EXTENDS Integers, Sequences, FiniteSets

VARIABLES
    code1, code2,   \* the two uint64 arguments of a codec call
    k1, k2,         \* the two uint8 arguments of a codec call
    fn,             \* the codec function applied last ("" before any call)
    ret             \* what that call returned: [err, val]

codecVars == <<code1, code2, k1, k2, fn, ret>>

VARIABLES
    pc,                 \* the step indexCmd.Run stands at ("idle": not running)
    minK,               \* the package's smallest k-mer size
    kmer, lcPrefix,     \* --kmer (k), --seed-min-prefix as read
    maxDesert,          \* --seed-max-desert as read
    seedInDesertDist,   \* --seed-in-desert-dist as read
    outDir, inDir,      \* --out-dir, --in-dir
    force,              \* --force
    dirState,           \* the output directory: absent, exists, created, overwritten
    exitErr,            \* the error the command ended with: [flag, kind]
    reads,              \* the flags read so far
    passed,             \* the checks passed so far
    bopt,               \* the IndexBuildingOptions built (K = 0 before)
    buildCalled         \* BuildIndex has been called

cmdVars ==
    <<pc, minK, kmer, lcPrefix, maxDesert, seedInDesertDist, outDir, inDir, force,
      dirState, exitErr, reads, passed, bopt, buildCalled>>

VARIABLES
    seqLen,     \* the length of the genome the seed assigner works on
    phase,      \* idle, scan, gaps, fill, done
    cursor,     \* the k-mer position the first pass stands at
    seeds,      \* the positions the first pass accepted
    filled,     \* the positions desert filling force-accepted
    prev,       \* the start of the gap under inspection
    target      \* the desired position of the walk through a desert

assignVars == <<seqLen, phase, cursor, seeds, filled, prev, target>>

VARIABLES
    nFiles,         \* the number of input genome files
    maxOpenFiles,   \* --max-open-files
    fam,            \* which family of seed data the batches hold
    genomeData,     \* batch -> the genome data of the batch
    workers,        \* chunk -> the state of the chunk's merge worker
    collected       \* the genome data have been collected into the index

mergeVars == <<nFiles, maxOpenFiles, fam, genomeData, workers, collected>>

VARIABLES
    maskSet,    \* the masks (k-mer codes) in insertion order
    maskK,      \* the k of the masks
    query,      \* the query k-mer code
    queryK,     \* the k of the query
    order,      \* the order in which the scan visits the mask indexes
    scanned,    \* how many masks the scan has visited
    best        \* the best mask so far: [idx, len], idx = 0 for none

nearestVars == <<maskSet, maskK, query, queryK, order, scanned, best>>

VARIABLES
    binPc,              \* the step binCmd.Run stands at ("idle": not running)
    report,             \* the lines of the report file
    lineNo,             \* the number of lines the scanner has read
    headerLine,         \* the first line is a header
    allInputs,          \* query -> the rows stored for it (<<>>: no entry)
    searchGenomes,      \* the genomes named by the rows read
    previous,           \* the row `previous` points to, or Nil
    bin_unique,         \* --bin-unique-reads
    verbose,            \* verbose logging is on
    recNo,              \* the number of input records read
    outputWrites,       \* bin -> slice of reads
    outputWrites_unq,   \* bin -> slice of reads mapped to one genome
    SequenceTracker,    \* records processed
    BasesInMemory,      \* bases read since the last flush
    calls,              \* the WriteBinnedReads calls made, with what each emitted
    slice, new_value,   \* the arguments of a call of Append
    appended            \* what that call did: [panic, slice]

binVars ==
    <<binPc, report, lineNo, headerLine, allInputs, searchGenomes, previous,
      bin_unique, verbose, recNo, outputWrites, outputWrites_unq,
      SequenceTracker, BasesInMemory, calls, slice, new_value, appended>>

vars == <<codecVars, cmdVars, assignVars, mergeVars, nearestVars, binVars>>

-----------------------------------------------------------------------------
(* Bounds and program constants *)

\* number of 2-bit groups of a uint64 word
WordBases == 32

\* largest value drawn for a length argument (k, n, i, p); 33 is out of domain
MaxK == 33

\* largest value drawn for --seed-max-desert and --seed-in-desert-dist
MaxDesertFlag == 7

MaxSeqLen == 12

MaxFiles == 5

MaxMasks == 3

MaxReportLines == 4

MaxSliceLen == 4

MaxChunks == 2

MaxOpenFilesFlag == 5

-----------------------------------------------------------------------------
(* Unsigned machine arithmetic *)

\* a uint8 expression wraps modulo 256
U8(x) == x % 256

\* (x) << 1 on a uint8 operand
Shl1(x) == U8(U8(x) * 2)

Zero64 == [i \in 1..WordBases |-> 0]

One64 == [i \in 1..WordBases |-> IF i = WordBases THEN 1 ELSE 0]

\* c >> s on uint64, s an even bit count; Go yields 0 once s >= 64
Shr(c, s) ==
    IF s >= 2 * WordBases THEN Zero64
    ELSE SubSeq(Zero64, 1, s \div 2) \o SubSeq(c, 1, WordBases - (s \div 2))

\* c << s on uint64, s an even bit count; bits shifted out are lost
Shl(c, s) ==
    IF s >= 2 * WordBases THEN Zero64
    ELSE SubSeq(c, (s \div 2) + 1, WordBases) \o SubSeq(Zero64, 1, s \div 2)

\* the lowest non-zero group of c # 0, scanning from group i up
RECURSIVE LowestSet(_, _)
LowestSet(c, i) == IF c[i] # 0 THEN i ELSE LowestSet(c, i - 1)

\* c - 1 on uint64, wrapping 0 to 2^64 - 1
Dec64(c) ==
    IF c = Zero64 THEN [i \in 1..WordBases |-> 3]
    ELSE LET j == LowestSet(c, WordBases)
         IN  [i \in 1..WordBases |->
                IF i < j THEN c[i] ELSE IF i = j THEN c[i] - 1 ELSE 3]

And2(a, b) == 2 * ((a \div 2) * (b \div 2)) + (a % 2) * (b % 2)

Xor2(a, b) == 2 * (((a \div 2) + (b \div 2)) % 2) + (((a % 2) + (b % 2)) % 2)

Or2(a, b) == a + b - And2(a, b)

And64(a, b) == [i \in 1..WordBases |-> And2(a[i], b[i])]

Xor64(a, b) == [i \in 1..WordBases |-> Xor2(a[i], b[i])]

Or64(a, b) == [i \in 1..WordBases |-> Or2(a[i], b[i])]

\* the zero bits above the highest set bit of c, scanning from group i down
RECURSIVE ZerosFrom(_, _)
ZerosFrom(c, i) ==
    IF i > WordBases THEN 2 * WordBases
    ELSE IF c[i] # 0 THEN 2 * (i - 1) + (IF c[i] = 1 THEN 1 ELSE 0)
    ELSE ZerosFrom(c, i + 1)

\* bits.LeadingZeros64
LeadingZeros64(c) == IF c = Zero64 THEN 2 * WordBases ELSE ZerosFrom(c, 1)

-----------------------------------------------------------------------------
(* package util: the k-mer codec *)

\* mutant: the shift count is reduced modulo 64, as a hardware shift does
KmerBaseAtMod64(code, k, i) == And2(Shr(code, Shl1(k - i - 1) % 64)[WordBases], 3)

KmerBaseAt(code, k, i) == And2(Shr(code, Shl1(k - i - 1))[WordBases], 3)

KmerPrefix(code, k, n) == Shr(code, Shl1(k - n))

\* mutant: the mask is built one base too short
KmerSuffixShort(code, k, i) == And64(code, Dec64(Shl(One64, Shl1(k - i - 1))))

KmerSuffix(code, k, i) == And64(code, Dec64(Shl(One64, Shl1(k - i))))

\* mutant: the k1 < k2 branch is forgotten
KmerLongestPrefixNoSwap(c1, c2, ka, kb) ==
    U8(LeadingZeros64(Xor64(Shr(c1, Shl1(ka - kb)), c2)) \div 2 - U8(32 - kb))

KmerLongestPrefix(c1, c2, ka, kb) ==
    IF ka >= kb
    THEN U8(LeadingZeros64(Xor64(Shr(c1, Shl1(ka - kb)), c2)) \div 2 - U8(32 - kb))
    ELSE U8(LeadingZeros64(Xor64(c1, Shr(c2, Shl1(kb - ka)))) \div 2 - U8(32 - ka))

\* uint8(bits.LeadingZeros64(code1^code2)>>1) + k2, before it wraps
MustLcpSum(c1, c2, ka, kb) ==
    LeadingZeros64(Xor64(Shr(c1, Shl1(ka - kb)), c2)) \div 2 + kb

\* mutant: code1 is not aligned to code2 before the comparison
MustKmerLongestPrefixNoShift(c1, c2, ka, kb) ==
    U8(U8(LeadingZeros64(Xor64(c1, c2)) \div 2 + kb) - 32)

MustKmerLongestPrefix(c1, c2, ka, kb) == U8(U8(MustLcpSum(c1, c2, ka, kb)) - 32)

KmerHasPrefix(code, prefix, ka, kb) ==
    IF ka < kb THEN FALSE ELSE Shr(code, Shl1(ka - kb)) = prefix

MustKmerHasPrefix(code, prefix, ka, kb) == Shr(code, Shl1(ka - kb)) = prefix

\* mutant: the k1 < k2 guard is missing
KmerHasSuffixNoGuard(code, suffix, ka, kb) ==
    And64(code, Dec64(Shl(One64, Shl1(kb)))) = suffix

KmerHasSuffix(code, suffix, ka, kb) ==
    IF ka < kb THEN FALSE ELSE And64(code, Dec64(Shl(One64, Shl1(kb)))) = suffix

MustKmerHasSuffix(code, suffix, ka, kb) ==
    And64(code, Dec64(Shl(One64, Shl1(kb)))) = suffix

\* the counting loop shared by the four Sharing* functions, run `iters` times:
\* iteration t (from 0) looks at code1&3 and code2&3 after t shifts by 2 bits;
\* eq tells whether equal or unequal groups are counted by the uint8 counter
CountLoop(c1, c2, iters, eq) ==
    U8(Cardinality({t \in 0..(iters - 1) :
            (And2(Shr(c1, 2 * t)[WordBases], 3) = And2(Shr(c2, 2 * t)[WordBases], 3)) = eq}))

\* mutant: the loop runs once too often (i <= k-p)
SharingPrefixKmersMismatchOneMore(c1, c2, k, p) ==
    IF p >= k THEN 0 ELSE CountLoop(c1, c2, U8(k - p + 1), FALSE)

SharingPrefixKmersMismatch(c1, c2, k, p) ==
    IF p >= k THEN 0 ELSE CountLoop(c1, c2, U8(k - p), FALSE)

MustSharingPrefixKmersMismatch(c1, c2, k, p) ==
    CountLoop(c1, c2, U8(k - p), FALSE)

\* mutant: the loop stops one base early
SharingPrefixKmersSuffixMatchesShort(c1, c2, k, p) ==
    IF p >= k THEN 0 ELSE CountLoop(c1, c2, U8(k - p - 1), TRUE)

SharingPrefixKmersSuffixMatches(c1, c2, k, p) ==
    IF p >= k THEN 0 ELSE CountLoop(c1, c2, U8(k - p), TRUE)

MustSharingPrefixKmersSuffixMatches(c1, c2, k, p) ==
    IF p >= k THEN 0 ELSE CountLoop(c1, c2, U8(k - p), TRUE)

\* a codec function has no error result and cannot panic: it always returns
Returned(v) == [err |-> FALSE, val |-> v]

-----------------------------------------------------------------------------
(* Inputs of the codec calls *)

\* base pattern j at 0-based position i
Pat(j, i) == ((j * i) + (i \div 3) + j) % 4

\* the code of the k-mer whose bases are bs (Len(bs) <= 32), right-aligned
Encode(bs) ==
    [i \in 1..WordBases |->
        IF i > WordBases - Len(bs) THEN bs[i - (WordBases - Len(bs))] ELSE 0]

\* the bases of the k-mer following pattern j (at most 32 of them fit)
PatBases(j, k) ==
    [i \in 1..(IF k > WordBases THEN WordBases ELSE k) |-> Pat(j, i - 1)]

\* the bases that follow pattern a up to position d, differ from it by x at
\* position d and follow pattern b behind it
MixBases(a, b, d, x, k) ==
    [i \in 1..(IF k > WordBases THEN WordBases ELSE k) |->
        IF i - 1 < d THEN Pat(a, i - 1)
        ELSE IF i - 1 = d THEN Xor2(Pat(a, i - 1), x)
        ELSE Pat(b, i - 1)]

Lengths == 0..MaxK

Min(a, b) == IF a <= b THEN a ELSE b

\* only the low 2*k bits of code are set
InRange(code, k) == \A i \in 1..WordBases : i <= WordBases - k => code[i] = 0

\* base i (0-based) of a k-mer, read off the word directly
BaseOf(code, k, i) == code[WordBases - k + i + 1]

-----------------------------------------------------------------------------
(* Longest common prefix: KmerLongestPrefix and MustKmerLongestPrefix on    *)
(* two k-mers that agree on d leading bases                                 *)

TailPatterns == {0, 1}

\* no codec call has been made yet
CodecIdle ==
    /\ code1 = Zero64 /\ code2 = Zero64
    /\ k1 = 0 /\ k2 = 0
    /\ fn = ""
    /\ ret = Returned(0)

NoErr == [flag |-> "", kind |-> ""]

NoOptions ==
    [K |-> 0, Prefix |-> 0, DesertMaxLen |-> 0, DesertExpectedSeedDist |-> 0,
     DesertSeedPosRange |-> 0, Force |-> FALSE]

\* the index command is not running
\* a nil pointer
Nil == [query |-> "", sgenome |-> ""]

\* an empty slice of capacity c
MakeSlice(c) == [elems |-> <<>>, cap |-> c]

AppendIdle ==
    /\ slice = MakeSlice(0)
    /\ new_value = <<>>
    /\ appended = [panic |-> FALSE, slice |-> MakeSlice(0)]

RunIdle ==
    /\ binPc = "idle"
    /\ report = <<>>
    /\ lineNo = 0
    /\ headerLine = FALSE
    /\ allInputs = <<>>
    /\ searchGenomes = {}
    /\ previous = Nil
    /\ bin_unique = FALSE
    /\ verbose = FALSE
    /\ recNo = 0
    /\ outputWrites = <<>>
    /\ outputWrites_unq = <<>>
    /\ SequenceTracker = 0
    /\ BasesInMemory = 0
    /\ calls = <<>>

BinIdle == RunIdle /\ AppendIdle

NearestIdle ==
    /\ maskSet = <<>>
    /\ maskK = 0
    /\ query = Zero64
    /\ queryK = 0
    /\ order = <<>>
    /\ scanned = 0
    /\ best = [idx |-> 0, len |-> 0]

MergeIdle ==
    /\ nFiles = 0
    /\ maxOpenFiles = 0
    /\ fam = 0
    /\ genomeData = <<>>
    /\ workers = <<>>
    /\ collected = FALSE

AssignIdle ==
    /\ seqLen = 0
    /\ phase = "idle"
    /\ cursor = 0
    /\ seeds = {} /\ filled = {}
    /\ prev = 0 /\ target = 0

CmdIdle ==
    /\ pc = "idle"
    /\ minK = 0 /\ kmer = 0 /\ lcPrefix = 0
    /\ maxDesert = 0 /\ seedInDesertDist = 0
    /\ outDir = "" /\ inDir = "" /\ force = FALSE
    /\ dirState = "absent"
    /\ exitErr = NoErr
    /\ reads = {} /\ passed = {}
    /\ bopt = NoOptions
    /\ buildCalled = FALSE

\* the call's arguments are chosen; no function has been applied to them
Drawn(c1, c2, ka, kb) ==
    /\ UNCHANGED <<cmdVars, assignVars, mergeVars, nearestVars, binVars>>
    /\ code1' = c1 /\ code2' = c2
    /\ k1' = ka /\ k2' = kb
    /\ fn' = "input"
    /\ ret' = Returned(0)

\* function name applied to the chosen arguments returns v
Applied(name, v) ==
    /\ fn = "input"
    /\ fn' = name
    /\ ret' = Returned(v)
    /\ UNCHANGED <<code1, code2, k1, k2>>
    /\ UNCHANGED <<cmdVars, assignVars, mergeVars, nearestVars, binVars>>

InitLcp ==
    CodecIdle /\ CmdIdle /\ AssignIdle /\ MergeIdle /\ NearestIdle /\ BinIdle

\* code1 follows pattern 1 over k1 bases; code2 (k2 bases) agrees with it on
\* d leading bases, differs at base d and goes on with a tail pattern
DrawLcp ==
    /\ fn = ""
    /\ \E ka \in Lengths, kb \in Lengths :
       \E d \in 0..Min(kb, WordBases), x \in 1..3, b \in TailPatterns :
          Drawn(Encode(PatBases(1, ka)), Encode(MixBases(1, b, d, x, kb)), ka, kb)

DoKmerLongestPrefix ==
    Applied("KmerLongestPrefix", KmerLongestPrefix(code1, code2, k1, k2))

DoMustKmerLongestPrefix ==
    Applied("MustKmerLongestPrefix", MustKmerLongestPrefix(code1, code2, k1, k2))

NextLcp == DrawLcp \/ DoKmerLongestPrefix \/ DoMustKmerLongestPrefix

SpecLcp == InitLcp /\ [][NextLcp]_vars

\* the number of leading bases on which two k-mers agree, compared one by one
RefLcp(c1, c2, ka, kb) ==
    Cardinality({j \in 1..Min(ka, kb) :
                    \A i \in 0..(j - 1) : BaseOf(c1, ka, i) = BaseOf(c2, kb, i)})

\* C1: for in-range codes and 1 <= k1, k2 <= 32, KmerLongestPrefix returns the
\* number of leading bases on which the two k-mers agree (at most min(k1, k2)),
\* whichever of k1, k2 is larger
LcpCorrect ==
    (/\ fn = "KmerLongestPrefix"
     /\ k1 \in 1..32 /\ k2 \in 1..32
     /\ InRange(code1, k1) /\ InRange(code2, k2))
    => /\ ret.err = FALSE
       /\ ret.val = RefLcp(code1, code2, k1, k2)
       /\ ret.val <= Min(k1, k2)

\* C1 witness: the shorter k-mer (code1) is a full prefix of the longer one
LcpShorterIsPrefix ==
    /\ fn = "KmerLongestPrefix"
    /\ k1 >= 2 /\ k1 < k2 /\ k2 <= 32
    /\ ret.val = k1

\* C5: when k2 <= k1 <= 32 and both codes are in range, the fast path returns
\* what KmerLongestPrefix returns, and leadingZeros/2 + k2 - 32 does not wrap
MustLcpAgrees ==
    (/\ fn = "MustKmerLongestPrefix"
     /\ k2 <= k1 /\ k1 <= 32
     /\ InRange(code1, k1) /\ InRange(code2, k2))
    => /\ ret.val = KmerLongestPrefix(code1, code2, k1, k2)
       /\ MustLcpSum(code1, code2, k1, k2) >= 32
       /\ MustLcpSum(code1, code2, k1, k2) <= 255
       /\ ret.val = MustLcpSum(code1, code2, k1, k2) - 32

\* C5 witness: the fast path on a longer code1 that shares part of code2
MustLcpPartial ==
    /\ fn = "MustKmerLongestPrefix"
    /\ k2 < k1 /\ k1 <= 32
    /\ ret.val >= 1 /\ ret.val < k2

-----------------------------------------------------------------------------
(* Extraction and membership: KmerBaseAt, KmerPrefix, KmerSuffix and the    *)
(* Has* tests.  code1 is the code, k1 its k; k2 is the second length (n, i  *)
(* or the affix length), code2 the candidate prefix or suffix.              *)

CodePatterns == {1, 2}

\* bs with base i changed
Flip(bs, i) == [t \in 1..Len(bs) |-> IF t = i THEN Xor2(bs[t], 1) ELSE bs[t]]

\* candidate affixes of length kb for the k-mer with bases bs: its true prefix
\* and suffix, each also with one base changed, and pattern j itself when
\* kb is longer than the k-mer
Candidates(bs, j, kb) ==
    LET m == Min(kb, Len(bs))
        pre == SubSeq(bs, 1, m)
        suf == SubSeq(bs, Len(bs) - m + 1, Len(bs))
    IN  {Encode(pre), Encode(suf), Encode(Flip(pre, m)), Encode(Flip(suf, 1)),
         Encode(PatBases(j, kb))}

InitSplit ==
    CodecIdle /\ CmdIdle /\ AssignIdle /\ MergeIdle /\ NearestIdle /\ BinIdle

DrawSplit ==
    /\ fn = ""
    /\ \E ka \in Lengths, kb \in Lengths, j \in CodePatterns :
       \E c2 \in Candidates(PatBases(j, ka), j, kb) :
          Drawn(Encode(PatBases(j, ka)), c2, ka, kb)

DoKmerBaseAt == Applied("KmerBaseAt", KmerBaseAt(code1, k1, k2))

DoKmerPrefix == Applied("KmerPrefix", KmerPrefix(code1, k1, k2))

DoKmerSuffix == Applied("KmerSuffix", KmerSuffix(code1, k1, k2))

DoKmerHasPrefix == Applied("KmerHasPrefix", KmerHasPrefix(code1, code2, k1, k2))

DoMustKmerHasPrefix ==
    Applied("MustKmerHasPrefix", MustKmerHasPrefix(code1, code2, k1, k2))

DoKmerHasSuffix == Applied("KmerHasSuffix", KmerHasSuffix(code1, code2, k1, k2))

DoMustKmerHasSuffix ==
    Applied("MustKmerHasSuffix", MustKmerHasSuffix(code1, code2, k1, k2))

NextSplit ==
    \/ DrawSplit
    \/ DoKmerBaseAt
    \/ DoKmerPrefix
    \/ DoKmerSuffix
    \/ DoKmerHasPrefix
    \/ DoMustKmerHasPrefix
    \/ DoKmerHasSuffix
    \/ DoMustKmerHasSuffix

SpecSplit == InitSplit /\ [][NextSplit]_vars

\* C3: for 1 <= k <= 32, an in-range code and 0 < n <= k, the prefix of n
\* bases shifted back by 2*(k-n) bits OR the suffix from position n is the code;
\* the prefix fits in 2*n bits and the suffix in 2*(k-n) bits; and the suffix
\* from position 0 of a 32-mer (mask 1<<64 - 1, wrapped) is the whole code
SplitRejoin ==
    /\ (/\ fn = "KmerPrefix"
        /\ k1 \in 1..32 /\ k2 \in 1..k1
        /\ InRange(code1, k1))
       => /\ Or64(Shl(ret.val, Shl1(k1 - k2)), KmerSuffix(code1, k1, k2)) = code1
          /\ InRange(ret.val, k2)
          /\ InRange(KmerSuffix(code1, k1, k2), k1 - k2)
    /\ (/\ fn = "KmerSuffix"
        /\ k1 \in 1..32 /\ k2 \in 0..k1
        /\ InRange(code1, k1))
       => /\ InRange(ret.val, k1 - k2)
          /\ Or64(Shl(KmerPrefix(code1, k1, k2), Shl1(k1 - k2)), ret.val) = code1
          /\ (k1 = 32 /\ k2 = 0 => ret.val = code1)

\* C3 witness: a 32-mer split into a non-empty prefix and a non-empty suffix
SplitOf32mer ==
    /\ fn = "KmerPrefix"
    /\ k1 = 32 /\ k2 \in 1..31
    /\ ret.val # Zero64
    /\ KmerSuffix(code1, k1, k2) # Zero64

CodecFunctions ==
    {"KmerBaseAt", "KmerPrefix", "KmerSuffix", "KmerHasPrefix", "MustKmerHasPrefix",
     "KmerHasSuffix", "MustKmerHasSuffix"}

\* C4 as claimed: prefix/suffix extraction fails when k = 0 or n = 0, every
\* codec operation fails when k > 32, and baseAt fails when i >= k
CodecRejectsOutOfDomain ==
    /\ (fn \in {"KmerPrefix", "KmerSuffix"} /\ (k1 = 0 \/ k2 = 0)) => ret.err
    /\ (fn \in CodecFunctions /\ k1 > 32) => ret.err
    /\ (fn = "KmerBaseAt" /\ k2 >= k1) => ret.err

\* C4 as amended: the codec checks no argument and never fails; out of its
\* domain it returns a value: KmerBaseAt gives 0 for k <= i < k + 96,
\* KmerPrefix gives 0 for n = 0 or k = 0, KmerSuffix gives the whole code for
\* i = 0 (in-range code, k <= 32), and k > 32 is accepted like any other k
CodecReturnsOutOfDomain ==
    /\ fn \in CodecFunctions => ret.err = FALSE
    /\ (fn = "KmerBaseAt" /\ k2 >= k1 /\ k2 < k1 + 96) => ret.val = 0
    /\ (fn = "KmerPrefix" /\ k1 <= 32 /\ InRange(code1, k1) /\ (k1 = 0 \/ k2 = 0))
       => ret.val = Zero64
    /\ (fn = "KmerSuffix" /\ k1 <= 32 /\ InRange(code1, k1) /\ k2 = 0)
       => ret.val = code1
    /\ (fn = "KmerPrefix" /\ k1 > 32 /\ k2 = k1) => ret.val = code1

\* C4 witness: baseAt past the end of a non-zero 32-mer returns 0, no error
BaseAtPastEnd ==
    /\ fn = "KmerBaseAt"
    /\ k1 = 32 /\ k2 >= k1
    /\ code1 # Zero64
    /\ ret = Returned(0)

\* C6: for an in-range code and k1, k2 <= 32, KmerHasPrefix is true exactly
\* when k1 >= k2 and KmerPrefix(code, k1, k2) = prefix, and KmerHasSuffix
\* exactly when k1 >= k2 and KmerSuffix(code, k1, k1-k2) = suffix
HasAgreesWithExtraction ==
    /\ (/\ fn = "KmerHasPrefix"
        /\ k1 <= 32 /\ k2 <= 32
        /\ InRange(code1, k1))
       => ret.val = (k1 >= k2 /\ KmerPrefix(code1, k1, k2) = code2)
    /\ (/\ fn = "KmerHasSuffix"
        /\ k1 <= 32 /\ k2 <= 32
        /\ InRange(code1, k1))
       => ret.val = (k1 >= k2 /\ KmerSuffix(code1, k1, U8(k1 - k2)) = code2)

\* C6 witness: a proper, non-zero suffix is recognised
HasProperSuffix ==
    /\ fn = "KmerHasSuffix"
    /\ k2 >= 1 /\ k2 < k1 /\ k1 <= 32
    /\ code2 # Zero64
    /\ ret.val = TRUE

-----------------------------------------------------------------------------
(* Counting over the bases behind a shared prefix: the SharingPrefixKmers*  *)
(* functions.  code1 and code2 are the codes, k1 is k and k2 is p.          *)

CountPatterns == {0, 1, 2}

InitCount ==
    CodecIdle /\ CmdIdle /\ AssignIdle /\ MergeIdle /\ NearestIdle /\ BinIdle

\* both codes follow a pattern, over k bases or over the whole word
DrawCount ==
    /\ fn = ""
    /\ \E k \in Lengths, p \in Lengths, a \in CountPatterns, b \in CountPatterns :
       \E len \in {k, WordBases} :
          Drawn(Encode(PatBases(a, len)), Encode(PatBases(b, len)), k, p)

DoSharingPrefixKmersMismatch ==
    Applied("SharingPrefixKmersMismatch",
            SharingPrefixKmersMismatch(code1, code2, k1, k2))

DoMustSharingPrefixKmersMismatch ==
    Applied("MustSharingPrefixKmersMismatch",
            MustSharingPrefixKmersMismatch(code1, code2, k1, k2))

DoSharingPrefixKmersSuffixMatches ==
    Applied("SharingPrefixKmersSuffixMatches",
            SharingPrefixKmersSuffixMatches(code1, code2, k1, k2))

DoMustSharingPrefixKmersSuffixMatches ==
    Applied("MustSharingPrefixKmersSuffixMatches",
            MustSharingPrefixKmersSuffixMatches(code1, code2, k1, k2))

NextCount ==
    \/ DrawCount
    \/ DoSharingPrefixKmersMismatch
    \/ DoMustSharingPrefixKmersMismatch
    \/ DoSharingPrefixKmersSuffixMatches
    \/ DoMustSharingPrefixKmersSuffixMatches

SpecCount == InitCount /\ [][NextCount]_vars

\* C2: for all codes and all k <= 32, p < k, the mismatch count and the suffix
\* match count add up to k - p
MismatchPlusMatches ==
    /\ (fn = "SharingPrefixKmersMismatch" /\ k1 <= 32 /\ k2 < k1)
       => ret.val + SharingPrefixKmersSuffixMatches(code1, code2, k1, k2) = k1 - k2
    /\ (fn = "SharingPrefixKmersSuffixMatches" /\ k1 <= 32 /\ k2 < k1)
       => SharingPrefixKmersMismatch(code1, code2, k1, k2) + ret.val = k1 - k2

\* C2 witness: some bases behind the prefix differ and some agree
MismatchesAndMatches ==
    /\ fn = "SharingPrefixKmersMismatch"
    /\ k1 = 32 /\ k2 < k1
    /\ ret.val >= 2
    /\ SharingPrefixKmersSuffixMatches(code1, code2, k1, k2) >= 2

\* the base positions i in [p, k) at which the two k-mers differ
RefMismatches(c1, c2, k, p) ==
    {i \in p..(k - 1) : KmerBaseAt(c1, k, i) # KmerBaseAt(c2, k, i)}

\* C20: for in-range codes and p < k <= 32, SharingPrefixKmersMismatch is the
\* number of base positions in [p, k) at which KmerBaseAt differs between the
\* two codes; it is 0 when p >= k; MustSharingPrefixKmersMismatch returns the
\* same count whenever p < k
MismatchCountCorrect ==
    /\ (fn = "SharingPrefixKmersMismatch" /\ k2 < k1 /\ k1 <= 32
        /\ InRange(code1, k1) /\ InRange(code2, k1))
       => ret.val = Cardinality(RefMismatches(code1, code2, k1, k2))
    /\ (fn = "SharingPrefixKmersMismatch" /\ k2 >= k1) => ret.val = 0
    /\ (fn = "MustSharingPrefixKmersMismatch" /\ k2 < k1 /\ k1 <= 32
        /\ InRange(code1, k1) /\ InRange(code2, k1))
       => /\ ret.val = Cardinality(RefMismatches(code1, code2, k1, k2))
          /\ ret.val = SharingPrefixKmersMismatch(code1, code2, k1, k2)

\* C20 witness: a 31-mer pair behind a proper prefix, some bases differing
\* and some not
MismatchesBehindPrefix ==
    /\ fn = "SharingPrefixKmersMismatch"
    /\ k1 = 31 /\ k2 > 0 /\ k2 < k1
    /\ InRange(code1, k1) /\ InRange(code2, k1)
    /\ ret.val > 0 /\ ret.val < k1 - k2

-----------------------------------------------------------------------------
(* cmd/index.go: indexCmd.Run, one action per block of the function         *)

\* the blocks of Run in the order of the source
StepOrderMkdirFirst ==
    <<"kmer", "intflags", "prefix", "desert", "outflag", "samepath", "indir",
      "regexps", "mkdir", "options", "files", "build", "done">>

StepOrder ==
    <<"kmer", "intflags", "prefix", "desert", "outflag", "samepath", "indir",
      "regexps", "options", "mkdir", "files", "build", "done">>

\* the block that follows block s
NextStep(s) == StepOrder[(CHOOSE i \in 1..Len(StepOrder) : StepOrder[i] = s) + 1]

\* checkError(err): a non-nil error ends the process, nil lets Run go on
\* from block s, having passed the checks named
checkError(e, s, checks) ==
    IF e # NoErr
    THEN /\ pc' = "exit"
         /\ exitErr' = e
         /\ passed' = passed
    ELSE /\ pc' = NextStep(s)
         /\ exitErr' = exitErr
         /\ passed' = passed \cup checks

\* getFlagPositiveInt: the error (if any) for value v of flag f
getFlagPositiveInt(v, f) ==
    IF v <= 0 THEN [flag |-> f, kind |-> "positive"] ELSE NoErr

\* getFlagNonNegativeInt: the error (if any) for value v of flag f
getFlagNonNegativeInt(v, f) ==
    IF v < 0 THEN [flag |-> f, kind |-> "nonnegative"] ELSE NoErr

\* mutant: the upper limit of k is not checked
KmerOutOfRangeNoMax(v) == v < minK

\* k < minK || k > 32
KmerOutOfRange(v) == v < minK \/ v > 32

\* lcPrefix > 32 || lcPrefix < 5
PrefixOutOfRange(v) == v > 32 \/ v < 5

\* mutant: the halving of --seed-max-desert is forgotten
DesertConflictNoHalf(dist, desert) == dist > desert

\* seedInDesertDist > maxDesert/2
DesertConflict(dist, desert) == dist > desert \div 2

\* filepath.Clean on the paths drawn
Clean(path) ==
    CASE path = "" -> "."
      [] path = "out/" -> "out"
      [] path = "in/" -> "in"
      [] OTHER -> path

KmerFlags == {0, 3, 4, 5, 7, 8, 31, 32, 33}

PrefixFlags == {-1, 0, 4, 5, 15, 32, 33}

MinKs == {4, 5, 8}

OutDirs == {"", ".", "out", "out/", "in"}

InDirs == {"", "in", "in/"}

PositiveIntFlags ==
    <<"masks", "rand-seed", "chunks", "partitions", "batch-size", "max-open-files">>

InitRun ==
    /\ CodecIdle
    /\ BinIdle
    /\ AssignIdle
    /\ MergeIdle
    /\ NearestIdle
    /\ pc = "kmer"
    /\ minK \in MinKs
    /\ kmer = 0 /\ lcPrefix = 0
    /\ maxDesert = 0 /\ seedInDesertDist = 0
    /\ outDir = "" /\ inDir = "" /\ force = FALSE
    /\ dirState \in {"absent", "exists"}
    /\ exitErr = NoErr
    /\ reads = {} /\ passed = {}
    /\ bopt = NoOptions
    /\ buildCalled = FALSE

\* lines 120-123
ReadKmer ==
    /\ pc = "kmer"
    /\ \E v \in KmerFlags :
          /\ kmer' = v
          /\ IF getFlagPositiveInt(v, "kmer") # NoErr
             THEN checkError(getFlagPositiveInt(v, "kmer"), "kmer", {})
             ELSE checkError(IF KmerOutOfRange(v)
                             THEN [flag |-> "kmer", kind |-> "range"] ELSE NoErr,
                             "kmer", {"kmer"})
    /\ reads' = reads \cup {"kmer"}
    /\ UNCHANGED <<minK, lcPrefix, maxDesert, seedInDesertDist, outDir, inDir,
                   force, dirState, bopt, buildCalled>>
    /\ UNCHANGED <<codecVars, assignVars, mergeVars, nearestVars, binVars>>

\* lines 125-134: either every flag is valid, or the first invalid one ends Run
ReadIntFlags ==
    /\ pc = "intflags"
    /\ \/ checkError(NoErr, "intflags", {"intflags"})
       \/ \E i \in 1..Len(PositiveIntFlags) :
             checkError(getFlagPositiveInt(0, PositiveIntFlags[i]), "intflags", {})
       \/ checkError(getFlagNonNegativeInt(-1, "max-genome"), "intflags", {})
    /\ reads' = reads \cup {"intflags"}
    /\ UNCHANGED <<minK, kmer, lcPrefix, maxDesert, seedInDesertDist, outDir, inDir,
                   force, dirState, bopt, buildCalled>>
    /\ UNCHANGED <<codecVars, assignVars, mergeVars, nearestVars, binVars>>

\* lines 136-139
ReadSeedMinPrefix ==
    /\ pc = "prefix"
    /\ \E v \in PrefixFlags :
          /\ lcPrefix' = v
          /\ IF getFlagNonNegativeInt(v, "seed-min-prefix") # NoErr
             THEN checkError(getFlagNonNegativeInt(v, "seed-min-prefix"), "prefix", {})
             ELSE checkError(IF PrefixOutOfRange(v)
                             THEN [flag |-> "seed-min-prefix", kind |-> "range"]
                             ELSE NoErr,
                             "prefix", {"prefix"})
    /\ reads' = reads \cup {"seed-min-prefix"}
    /\ UNCHANGED <<minK, kmer, maxDesert, seedInDesertDist, outDir, inDir,
                   force, dirState, bopt, buildCalled>>
    /\ UNCHANGED <<codecVars, assignVars, mergeVars, nearestVars, binVars>>

\* lines 140-144
ReadDesert ==
    /\ pc = "desert"
    /\ \E md \in 0..MaxDesertFlag :
          /\ maxDesert' = md
          /\ IF getFlagPositiveInt(md, "seed-max-desert") # NoErr
             THEN /\ checkError(getFlagPositiveInt(md, "seed-max-desert"), "desert", {})
                  /\ seedInDesertDist' = seedInDesertDist
                  /\ reads' = reads \cup {"seed-max-desert"}
             ELSE \E d \in 0..MaxDesertFlag :
                  /\ seedInDesertDist' = d
                  /\ reads' = reads \cup {"seed-max-desert", "seed-in-desert-dist"}
                  /\ IF getFlagPositiveInt(d, "seed-in-desert-dist") # NoErr
                     THEN checkError(getFlagPositiveInt(d, "seed-in-desert-dist"),
                                     "desert", {})
                     ELSE checkError(IF DesertConflict(d, md)
                                     THEN [flag |-> "seed-in-desert-dist",
                                           kind |-> "conflict"]
                                     ELSE NoErr,
                                     "desert", {"desert"})
    /\ UNCHANGED <<minK, kmer, lcPrefix, outDir, inDir, force, dirState, bopt,
                   buildCalled>>
    /\ UNCHANGED <<codecVars, assignVars, mergeVars, nearestVars, binVars>>

\* lines 149-154
ReadOutDir ==
    /\ pc = "outflag"
    /\ \E o \in OutDirs, f \in BOOLEAN :
          /\ outDir' = o
          /\ force' = f
          /\ checkError(IF o = "" THEN [flag |-> "out-dir", kind |-> "missing"]
                        ELSE NoErr,
                        "outflag", {"outflag"})
    /\ reads' = reads \cup {"out-dir", "force"}
    /\ UNCHANGED <<minK, kmer, lcPrefix, maxDesert, seedInDesertDist, inDir,
                   dirState, bopt, buildCalled>>
    /\ UNCHANGED <<codecVars, assignVars, mergeVars, nearestVars, binVars>>

\* lines 158-165
CheckSamePath ==
    /\ pc = "samepath"
    /\ \E d \in InDirs :
          /\ inDir' = d
          /\ outDir' = Clean(outDir)
          /\ checkError(IF Clean(d) = Clean(outDir)
                        THEN [flag |-> "in-dir", kind |-> "same-path"] ELSE NoErr,
                        "samepath", {"samepath"})
    /\ reads' = reads \cup {"in-dir"}
    /\ UNCHANGED <<minK, kmer, lcPrefix, maxDesert, seedInDesertDist, force,
                   dirState, bopt, buildCalled>>
    /\ UNCHANGED <<codecVars, assignVars, mergeVars, nearestVars, binVars>>

\* lines 167-177: pathutil.IsDir fails, says no, or says yes
CheckInDir ==
    /\ pc = "indir"
    /\ IF inDir # ""
       THEN \/ checkError([flag |-> "in-dir", kind |-> "not-dir"], "indir", {})
            \/ checkError(NoErr, "indir", {"indir"})
       ELSE checkError(NoErr, "indir", {"indir"})
    /\ UNCHANGED <<minK, kmer, lcPrefix, maxDesert, seedInDesertDist, outDir, inDir,
                   force, dirState, reads, bopt, buildCalled>>
    /\ UNCHANGED <<codecVars, assignVars, mergeVars, nearestVars, binVars>>

\* lines 179-216: the three groups of regular expressions compile or do not
CompileRegexps ==
    /\ pc = "regexps"
    /\ \/ \E f \in {"file-regexp", "ref-name-regexp", "seq-name-filter"} :
             checkError([flag |-> f, kind |-> "regexp"], "regexps", {})
       \/ checkError(NoErr, "regexps", {"regexps"})
    /\ reads' = reads \cup {"file-regexp", "ref-name-regexp", "seq-name-filter"}
    /\ UNCHANGED <<minK, kmer, lcPrefix, maxDesert, seedInDesertDist, outDir, inDir,
                   force, dirState, bopt, buildCalled>>
    /\ UNCHANGED <<codecVars, assignVars, mergeVars, nearestVars, binVars>>

\* mutant: the search range is the whole expected distance
OptionsWideRange(k, p, desert, dist, f) ==
    [K |-> k, Prefix |-> p, DesertMaxLen |-> desert,
     DesertExpectedSeedDist |-> dist, DesertSeedPosRange |-> dist, Force |-> f]

\* lines 225-269: the IndexBuildingOptions built from the flags
Options(k, p, desert, dist, f) ==
    [K |-> k, Prefix |-> p, DesertMaxLen |-> desert,
     DesertExpectedSeedDist |-> dist, DesertSeedPosRange |-> dist \div 2,
     Force |-> f]

\* lines 225-271: bopt is built, CheckIndexBuildingOptions accepts it or not
CheckOptions ==
    /\ pc = "options"
    /\ bopt' = Options(kmer, lcPrefix, maxDesert, seedInDesertDist, force)
    /\ \/ checkError([flag |-> "options", kind |-> "options"], "options", {})
       \/ checkError(NoErr, "options", {"options"})
    /\ UNCHANGED <<minK, kmer, lcPrefix, maxDesert, seedInDesertDist, outDir, inDir,
                   force, dirState, reads, buildCalled>>
    /\ UNCHANGED <<codecVars, assignVars, mergeVars, nearestVars, binVars>>

\* makeOutDir: an existing directory is replaced under --force and is an
\* error without it; a missing one is created
makeOutDir ==
    IF dirState = "exists"
    THEN IF force
         THEN dirState' = "overwritten" /\ checkError(NoErr, "mkdir", {"mkdir"})
         ELSE /\ dirState' = dirState
              /\ checkError([flag |-> "out-dir", kind |-> "exists"], "mkdir", {})
    ELSE dirState' = "created" /\ checkError(NoErr, "mkdir", {"mkdir"})

\* lines 276-279
MakeOutDir ==
    /\ pc = "mkdir"
    /\ IF outDir # ""
       THEN makeOutDir
       ELSE dirState' = dirState /\ checkError(NoErr, "mkdir", {"mkdir"})
    /\ UNCHANGED <<minK, kmer, lcPrefix, maxDesert, seedInDesertDist, outDir, inDir,
                   force, reads, bopt, buildCalled>>
    /\ UNCHANGED <<codecVars, assignVars, mergeVars, nearestVars, binVars>>

\* lines 292-313: walking the directory fails, or n files are found
ListFiles ==
    /\ pc = "files"
    /\ \/ inDir # "" /\ checkError([flag |-> "in-dir", kind |-> "walk"], "files", {})
       \/ \E n \in 0..2 :
             checkError(IF n < 1 THEN [flag |-> "files", kind |-> "no-files"]
                        ELSE NoErr,
                        "files", {"files"})
    /\ UNCHANGED <<minK, kmer, lcPrefix, maxDesert, seedInDesertDist, outDir, inDir,
                   force, dirState, reads, bopt, buildCalled>>
    /\ UNCHANGED <<codecVars, assignVars, mergeVars, nearestVars, binVars>>

\* lines 353-356
Build ==
    /\ pc = "build"
    /\ buildCalled' = TRUE
    /\ \/ checkError([flag |-> "", kind |-> "build"], "build", {})
       \/ checkError(NoErr, "build", {"build"})
    /\ UNCHANGED <<minK, kmer, lcPrefix, maxDesert, seedInDesertDist, outDir, inDir,
                   force, dirState, reads, bopt>>
    /\ UNCHANGED <<codecVars, assignVars, mergeVars, nearestVars, binVars>>

NextRun ==
    \/ ReadKmer
    \/ ReadIntFlags
    \/ ReadSeedMinPrefix
    \/ ReadDesert
    \/ ReadOutDir
    \/ CheckSamePath
    \/ CheckInDir
    \/ CompileRegexps
    \/ CheckOptions
    \/ MakeOutDir
    \/ ListFiles
    \/ Build

SpecRun == InitRun /\ [][NextRun]_vars

DirUntouched == dirState \in {"absent", "exists"}

\* C7: a --seed-in-desert-dist (positive, as read) greater than
\* --seed-max-desert / 2 (integer halving) ends Run with the desert error,
\* the output directory untouched and BuildIndex not called; a value up to
\* maxDesert / 2 passes the desert check
DesertCheck ==
    /\ ("seed-in-desert-dist" \in reads /\ seedInDesertDist > 0
        /\ seedInDesertDist > maxDesert \div 2)
       => /\ pc = "exit"
          /\ exitErr = [flag |-> "seed-in-desert-dist", kind |-> "conflict"]
          /\ DirUntouched
          /\ ~buildCalled
    /\ ("seed-in-desert-dist" \in reads /\ seedInDesertDist > 0
        /\ seedInDesertDist <= maxDesert \div 2)
       => /\ "desert" \in passed
          /\ exitErr.flag \notin {"seed-in-desert-dist", "seed-max-desert"}

\* C7 witness: dist = maxDesert/2 + 1 with an odd maxDesert is rejected
DesertRejected ==
    /\ pc = "exit"
    /\ maxDesert = 5 /\ seedInDesertDist = 3
    /\ exitErr.kind = "conflict"

\* C8: the options that reach BuildIndex have minK <= K <= 32 and
\* 5 <= Prefix <= 32; a k or p read outside its range ends Run with an error
\* naming its flag
BuildRanges ==
    /\ buildCalled
       => /\ bopt.K <= 32 /\ bopt.K >= minK
          /\ bopt.Prefix >= 5 /\ bopt.Prefix <= 32
    /\ ("kmer" \in reads /\ (kmer < minK \/ kmer > 32))
       => pc = "exit" /\ exitErr.flag = "kmer"
    /\ ("seed-min-prefix" \in reads /\ (lcPrefix < 5 \/ lcPrefix > 32))
       => pc = "exit" /\ exitErr.flag = "seed-min-prefix"

\* C8 witness: BuildIndex is called with the largest k and p
BuildWith32 ==
    /\ buildCalled
    /\ bopt.K = 32 /\ bopt.Prefix = 32

ConfigChecks ==
    {"kmer", "prefix", "desert", "outflag", "samepath", "regexps", "options"}

ConfigErrors ==
    {"positive", "nonnegative", "range", "conflict", "missing", "same-path",
     "not-dir", "regexp", "options"}

\* C9: the output directory is created or overwritten, and BuildIndex is
\* called, only after every configuration check has passed; once a check has
\* failed, neither ever happens
ChecksBeforeWork ==
    /\ (~DirUntouched \/ buildCalled) => ConfigChecks \subseteq passed
    /\ exitErr.kind \in ConfigErrors => DirUntouched /\ ~buildCalled
    /\ exitErr # NoErr => pc = "exit"

\* C9 witness: CheckIndexBuildingOptions rejected the options of a run whose
\* earlier checks all passed, and nothing was done
OptionsRejected ==
    /\ pc = "exit"
    /\ exitErr.kind = "options"
    /\ ConfigChecks \ {"options"} \subseteq passed
    /\ DirUntouched /\ ~buildCalled

-----------------------------------------------------------------------------
(* The seed assigner on one genome: the first pass and desert filling       *)

SeedKs == {4, 5}

\* the flags of a run that reached BuildIndex
AllFlags ==
    {"kmer", "intflags", "seed-min-prefix", "seed-max-desert",
     "seed-in-desert-dist", "out-dir", "force", "in-dir", "file-regexp",
     "ref-name-regexp", "seq-name-filter"}

\* BuildIndex hands a genome of seqLen >= K bases to the seed assigner with
\* options that passed the checks of Run
InitAssign ==
    /\ CodecIdle
    /\ BinIdle
    /\ MergeIdle
    /\ NearestIdle
    /\ pc = "build"
    /\ minK = 4
    /\ kmer \in SeedKs /\ ~KmerOutOfRange(kmer)
    /\ lcPrefix = 5 /\ ~PrefixOutOfRange(lcPrefix)
    /\ maxDesert \in 0..MaxDesertFlag
    /\ getFlagPositiveInt(maxDesert, "seed-max-desert") = NoErr
    /\ seedInDesertDist \in 0..MaxDesertFlag
    /\ getFlagPositiveInt(seedInDesertDist, "seed-in-desert-dist") = NoErr
    /\ ~DesertConflict(seedInDesertDist, maxDesert)
    /\ outDir = "out" /\ inDir = "in" /\ force = FALSE
    /\ dirState = "created"
    /\ exitErr = NoErr
    /\ reads = AllFlags
    /\ passed = ConfigChecks \cup {"intflags", "indir", "mkdir", "files"}
    /\ bopt = Options(kmer, lcPrefix, maxDesert, seedInDesertDist, force)
    /\ buildCalled = TRUE
    /\ seqLen \in kmer..MaxSeqLen
    /\ phase = "scan"
    /\ cursor = 0
    /\ seeds = {} /\ filled = {}
    /\ prev = 0 /\ target = 0

\* the last position a k-mer window starts at
LastPos == seqLen - bopt.K

\* the end of the gap that starts at a: the next seed of the first pass, or
\* the end of the genome
GapEnd(a) ==
    IF \E s \in seeds : s > a
    THEN CHOOSE s \in seeds : s > a /\ \A t \in seeds : t > a => s <= t
    ELSE seqLen

\* the k-mer positions within the search range of the desired position t
Window(t) ==
    {q \in 0..LastPos : q >= t - bopt.DesertSeedPosRange
                        /\ q <= t + bopt.DesertSeedPosRange}

AssignFrame == UNCHANGED <<codecVars, cmdVars, mergeVars, nearestVars, binVars, seqLen>>

\* steps 1-2: the k-mer at the cursor anchors well enough (a seed) or not
ScanPosition ==
    /\ phase = "scan"
    /\ cursor <= LastPos
    /\ \E accept \in BOOLEAN :
          seeds' = IF accept THEN seeds \cup {cursor} ELSE seeds
    /\ cursor' = cursor + 1
    /\ UNCHANGED <<phase, filled, prev, target>>
    /\ AssignFrame

\* step 3 begins at the start of the genome
EndScan ==
    /\ phase = "scan"
    /\ cursor > LastPos
    /\ phase' = "gaps"
    /\ prev' = 0
    /\ UNCHANGED <<cursor, seeds, filled, target>>
    /\ AssignFrame

\* step 3: a gap longer than DesertMaxLen is a desert and is walked through
ScanGap ==
    /\ phase = "gaps"
    /\ prev < seqLen
    /\ IF GapEnd(prev) - prev > bopt.DesertMaxLen
       THEN /\ phase' = "fill"
            /\ target' = prev + bopt.DesertExpectedSeedDist
            /\ prev' = prev
       ELSE /\ prev' = GapEnd(prev)
            /\ UNCHANGED <<phase, target>>
    /\ UNCHANGED <<cursor, seeds, filled>>
    /\ AssignFrame

\* step 4: a k-mer within the search range of the desired position is
\* force-accepted, and the walk moves on by the expected distance
FillStep ==
    /\ phase = "fill"
    /\ target < GapEnd(prev)
    /\ IF Window(target) = {}
       THEN filled' = filled
       ELSE \E q \in Window(target) : filled' = filled \cup {q}
    /\ target' = target + bopt.DesertExpectedSeedDist
    /\ UNCHANGED <<phase, cursor, seeds, prev>>
    /\ AssignFrame

\* the walk has reached the end of the desert
EndFill ==
    /\ phase = "fill"
    /\ target >= GapEnd(prev)
    /\ prev' = GapEnd(prev)
    /\ phase' = "gaps"
    /\ UNCHANGED <<cursor, seeds, filled, target>>
    /\ AssignFrame

\* the last gap ended at the end of the genome
Finish ==
    /\ phase = "gaps"
    /\ prev >= seqLen
    /\ phase' = "done"
    /\ UNCHANGED <<cursor, seeds, filled, prev, target>>
    /\ AssignFrame

NextAssign ==
    \/ ScanPosition
    \/ EndScan
    \/ ScanGap
    \/ FillStep
    \/ EndFill
    \/ Finish

SpecAssign == InitAssign /\ [][NextAssign]_vars

\* the largest distance between two neighbours of the set S of positions
MaxGap(S) ==
    LET gaps == {b - a : <<a, b>> \in
                    {pr \in S \X S : /\ pr[1] < pr[2]
                                     /\ ~\E c \in S : pr[1] < c /\ c < pr[2]}}
    IN  IF gaps = {} THEN 0 ELSE CHOOSE g \in gaps : \A h \in gaps : h <= g

-----------------------------------------------------------------------------
(* The batch merger: one worker per chunk merges the chunk's seed file of   *)
(* every batch, in waves, under the budget of open files                    *)

\* genomes per batch in the model (--batch-size)
batchSize == 2

\* a wave reads at least one batch and the intermediate and writes one file
MinMergeFiles == 3

\* the number of batches the input files are split into
Batches == 1..((nFiles + batchSize - 1) \div batchSize)

Chunks == 1..Len(workers)

\* the local genome IDs of batch b: sequential from 0
GenomeIDs(b) == {g \in 0..(batchSize - 1) : (b - 1) * batchSize + g < nFiles}

\* the genome data a batch is written with: local ID -> external name
GenomeDataOf(b) == [g \in GenomeIDs(b) |-> <<"genome", (b - 1) * batchSize + g>>]

\* the seed file of chunk c in batch b: records ordered by mask ID; the same
\* (mask, genome, position) occurs in several batches, and family 2 has an
\* empty file and a batch with two seeds of one mask
ShardOf(f, b, c) ==
    LET lo == 2 * c - 1
        last == CHOOSE g \in GenomeIDs(b) : \A h \in GenomeIDs(b) : h <= g
    IN  IF f = 1
        THEN <<[mask |-> lo, genome |-> 0, pos |-> 1],
               [mask |-> lo + 1, genome |-> last, pos |-> b]>>
        ELSE IF b = c THEN <<>>
        ELSE <<[mask |-> lo, genome |-> 0, pos |-> 1],
               [mask |-> lo, genome |-> last, pos |-> 2],
               [mask |-> lo + 1, genome |-> 0, pos |-> 1]>>

\* mutant: genome IDs are renumbered across batches
TagRenumbered(b, rec) ==
    [mask |-> rec.mask, batch |-> b,
     genome |-> (b - 1) * batchSize + rec.genome, pos |-> rec.pos]

\* a record of batch b as it is written to merged data: the genome is
\* identified by the pair (batch ID, local genome ID)
Tag(b, rec) ==
    [mask |-> rec.mask, batch |-> b, genome |-> rec.genome, pos |-> rec.pos]

TaggedShard(f, b, c) == [i \in 1..Len(ShardOf(f, b, c)) |-> Tag(b, ShardOf(f, b, c)[i])]

\* the records of the files one after the other
RECURSIVE ConcatFrom(_, _)
ConcatFrom(files, i) ==
    IF i > Len(files) THEN <<>> ELSE files[i] \o ConcatFrom(files, i + 1)

\* the records ordered by mask ID, those of one mask in their old order
ByMask(all) ==
    LET n == Len(all)
        rank(i) == Cardinality({j \in 1..n : \/ all[j].mask < all[i].mask
                                             \/ all[j].mask = all[i].mask /\ j < i}) + 1
    IN  [r \in 1..n |-> all[CHOOSE i \in 1..n : rank(i) = r]]

\* k-way merge of the mask-ordered files of a wave (on equal masks the
\* earlier file goes first): the records of all files, ordered by mask
KWayMerge(files) ==
    CHOOSE out \in {ByMask(all) : all \in {ConcatFrom(files, 1)}} : TRUE

\* the files a wave of n batches holds open: the n inputs, the intermediate
\* of the previous wave if there is one, and its output
FilesOfWave(n, hasInter) == n + (IF hasInter THEN 1 ELSE 0) + 1

\* mutant: the output file is not counted
WaveFitsNoOutput(n, hasInter, avail) == n + (IF hasInter THEN 1 ELSE 0) <= avail

\* the scheduler lets a wave start only if all its files fit in the budget
WaveFits(n, hasInter, avail) == FilesOfWave(n, hasInter) <= avail

\* mutant: the intermediate of the previous wave is not folded in
WaveInputsNoIntermediate(w, c) ==
    [i \in 1..Len(w.wave) |-> TaggedShard(fam, w.wave[i], c)]

\* the files a wave merges: the intermediate first, then the wave's batches
WaveInputs(w, c) ==
    (IF w.hasInter THEN <<w.inter>> ELSE <<>>)
    \o [i \in 1..Len(w.wave) |-> TaggedShard(fam, w.wave[i], c)]

RECURSIVE SumOver(_, _)
SumOver(f, S) ==
    IF S = {} THEN 0
    ELSE LET x == CHOOSE y \in S : TRUE IN f[x] + SumOver(f, S \ {x})

\* the file handles open over all workers
OpenHandles == SumOver([c \in Chunks |-> workers[c].opened], Chunks)

IdleWorker(n) ==
    [stage |-> "idle", pending |-> [i \in 1..n |-> i], wave |-> <<>>,
     inter |-> <<>>, hasInter |-> FALSE, opened |-> 0, waves |-> 0]

\* more input files than one batch holds: every batch is built, then merged
InitMerge ==
    /\ CodecIdle /\ CmdIdle /\ AssignIdle /\ NearestIdle /\ BinIdle
    /\ nFiles \in (batchSize + 1)..MaxFiles
    /\ maxOpenFiles \in MinMergeFiles..MaxOpenFilesFlag
    /\ fam \in {1, 2}
    /\ genomeData = [b \in Batches |-> [place |-> "batch", names |-> GenomeDataOf(b)]]
    /\ collected = FALSE
    /\ \E n \in 1..MaxChunks :
          workers = [c \in 1..n |-> IdleWorker((nFiles + batchSize - 1) \div batchSize)]

MergeFrame ==
    UNCHANGED <<codecVars, cmdVars, assignVars, nearestVars, binVars, nFiles,
                maxOpenFiles, fam>>

\* a worker starts a wave over the next n batches once its files fit in what
\* the budget leaves, and opens them
StartWave(c) ==
    /\ workers[c].stage = "idle"
    /\ \E n \in 1..Len(workers[c].pending) :
          /\ WaveFits(n, workers[c].hasInter, maxOpenFiles - OpenHandles)
          /\ workers' = [workers EXCEPT ![c] =
                [@ EXCEPT !.stage = "merging",
                          !.wave = SubSeq(workers[c].pending, 1, n),
                          !.opened = FilesOfWave(n, workers[c].hasInter)]]
    /\ UNCHANGED <<genomeData, collected>>
    /\ MergeFrame

\* the wave is merged into its output and the files are closed; the output
\* is the intermediate of the next wave, or the merged seed file when no
\* batch is left
FinishWave(c) ==
    /\ workers[c].stage = "merging"
    /\ LET rest == SubSeq(workers[c].pending, Len(workers[c].wave) + 1,
                          Len(workers[c].pending))
       IN  workers' = [workers EXCEPT ![c] =
              [@ EXCEPT !.stage = IF rest = <<>> THEN "done" ELSE "idle",
                        !.pending = rest,
                        !.wave = <<>>,
                        !.inter = KWayMerge(WaveInputs(workers[c], c)),
                        !.hasInter = TRUE,
                        !.opened = 0,
                        !.waves = @ + 1]]
    /\ UNCHANGED <<genomeData, collected>>
    /\ MergeFrame

\* mutant: the collected genome data are keyed by a global genome number
CollectRenumbered(gd) ==
    [b \in DOMAIN gd |->
        [place |-> "index",
         names |-> [g \in {(b - 1) * batchSize + i : i \in DOMAIN gd[b].names}
                       |-> gd[b].names[g - (b - 1) * batchSize]]]]

\* the genome data of every batch are kept as they are and collected next
\* to the merged seed files
Collect(gd) == [b \in DOMAIN gd |-> [gd[b] EXCEPT !.place = "index"]]

MergeDone == \A c \in Chunks : workers[c].stage = "done"

\* every chunk is merged: the genome data are collected
CollectGenomeData ==
    /\ MergeDone
    /\ ~collected
    /\ collected' = TRUE
    /\ genomeData' = Collect(genomeData)
    /\ UNCHANGED workers
    /\ MergeFrame

NextMerge ==
    \/ \E c \in Chunks : StartWave(c)
    \/ \E c \in Chunks : FinishWave(c)
    \/ CollectGenomeData

\* the worker pool keeps running its workers
SpecMerge == InitMerge /\ [][NextMerge]_vars /\ WF_vars(NextMerge)

GenomeDataUnchanged ==
    /\ DOMAIN genomeData = Batches
    /\ \A b \in Batches : genomeData[b].names = GenomeDataOf(b)
    /\ \A c \in Chunks : \A i \in 1..Len(workers[c].inter) :
          /\ workers[c].inter[i].batch \in Batches
          /\ workers[c].inter[i].genome
                \in DOMAIN genomeData[workers[c].inter[i].batch].names

\* C12 witness: three batches (more files than two batches hold) are merged
\* and their genome data collected
ThreeBatchesCollected ==
    /\ collected
    /\ nFiles > 2 * batchSize
    /\ \A b \in Batches : genomeData[b].place = "index"
    /\ \A c \in Chunks : Len(workers[c].inter) > 0

\* the seeds of chunk c before the merge, each with its (batch ID, local
\* genome ID)
SeedsBefore(c) ==
    UNION {{[mask |-> ShardOf(fam, b, c)[i].mask, batch |-> b,
             genome |-> ShardOf(fam, b, c)[i].genome,
             pos |-> ShardOf(fam, b, c)[i].pos] : i \in 1..Len(ShardOf(fam, b, c))} :
           b \in Batches}

\* C13: after the merge (in one wave or several) every seed of every batch
\* is in the merged data of its chunk exactly once, with its batch ID and
\* local genome ID, and the merged data hold nothing else
MergeComplete ==
    MergeDone
    => \A c \in Chunks :
          /\ \A r \in SeedsBefore(c) :
                Cardinality({i \in 1..Len(workers[c].inter) : workers[c].inter[i] = r}) = 1
          /\ \A i \in 1..Len(workers[c].inter) : workers[c].inter[i] \in SeedsBefore(c)

\* C13 witness: one chunk was merged in a single wave, the other in several
MergedInOneAndSeveralWaves ==
    /\ MergeDone
    /\ Len(workers) = 2
    /\ workers[1].waves = 1
    /\ workers[2].waves > 1
    /\ Len(workers[2].inter) > 3

-----------------------------------------------------------------------------
(* The mask set: nearest(maskSet, queryCode, queryK)                        *)

\* masks that agree with the query pattern on 15, 30 or all 31 bases; two
\* different masks agree on 15
MaskChoices ==
    {Encode(PatBases(1, 31))} \cup
    {Encode(MixBases(1, 2, d, 1, 31)) : d \in {15, 30}} \cup
    {Encode(MixBases(1, 2, 15, 2, 31))}

\* the orders in which n masks can be visited
Orders(n) ==
    {o \in [1..n -> 1..n] : \A i \in 1..n : \E j \in 1..n : o[j] = i}

InitNearest ==
    CodecIdle /\ CmdIdle /\ AssignIdle /\ MergeIdle /\ NearestIdle /\ BinIdle

NearestFrame == UNCHANGED <<codecVars, cmdVars, assignVars, mergeVars, binVars>>

\* a mask set of 31-mers, a query of 31 or 20 bases and a traversal order
DrawNearest ==
    /\ maskK = 0
    /\ \E n \in 1..MaxMasks :
       \E ms \in [1..n -> MaskChoices], o \in Orders(n), qk \in {20, 31} :
          /\ maskSet' = ms
          /\ order' = o
          /\ queryK' = qk
          /\ query' = Encode(PatBases(1, qk))
    /\ maskK' = 31
    /\ scanned' = 0
    /\ best' = [idx |-> 0, len |-> 0]
    /\ NearestFrame

\* mutant: a mask of equal prefix length never replaces the best so far
BetterNoTieBreak(len, idx, b) == b.idx = 0 \/ len > b.len

\* the mask idx sharing len bases beats the best so far: a longer shared
\* prefix, or the same prefix and a lower insertion index
Better(len, idx, b) ==
    b.idx = 0 \/ len > b.len \/ (len = b.len /\ idx < b.idx)

\* the scan visits the next mask of its order
ScanMask ==
    /\ scanned < Len(maskSet)
    /\ LET idx == order[scanned + 1]
           len == KmerLongestPrefix(maskSet[idx], query, maskK, queryK)
       IN  best' = IF Better(len, idx, best) THEN [idx |-> idx, len |-> len]
                   ELSE best
    /\ scanned' = scanned + 1
    /\ UNCHANGED <<maskSet, maskK, query, queryK, order>>
    /\ NearestFrame

NextNearest == DrawNearest \/ ScanMask

SpecNearest == InitNearest /\ [][NextNearest]_vars

\* the shared prefix of mask i and the query, compared base by base
MaskLcp(i) == RefLcp(maskSet[i], query, maskK, queryK)

\* C14: nearest returns a mask whose common prefix with the query is maximal
\* over the whole mask set, and among the masks reaching that length the one
\* with the lowest insertion index, whatever the traversal order
NearestTieBreak ==
    (maskK > 0 /\ scanned = Len(maskSet))
    => /\ best.idx \in 1..Len(maskSet)
       /\ best.len = MaskLcp(best.idx)
       /\ \A i \in 1..Len(maskSet) : MaskLcp(i) <= best.len
       /\ \A i \in 1..Len(maskSet) : MaskLcp(i) = best.len => best.idx <= i

\* C14 witness: the scan met the masks from the last to the first, the first
\* and the last mask tie at the maximal prefix length, and the first won
TieWonByFirst ==
    /\ maskK > 0 /\ scanned = Len(maskSet)
    /\ Len(maskSet) = 3
    /\ order = <<3, 2, 1>>
    /\ maskSet[1] # maskSet[3]
    /\ MaskLcp(1) = MaskLcp(3) /\ MaskLcp(2) < MaskLcp(1)
    /\ best.idx = 1

-----------------------------------------------------------------------------
(* cmd/bin.go: Append                                                        *)

\* func Append(slice, new_value...): a full slice (len = cap) moves to a new array
\* of twice the total length; slice[:total] panics when total exceeds the
\* capacity; the new values are copied behind the old ones
AppendSlice(sl, new) ==
    LET n == Len(sl.elems)
        total == Len(sl.elems) + Len(new)
        capacity == IF n = sl.cap THEN total * 2 ELSE sl.cap
    IN  IF total > capacity
        THEN [panic |-> TRUE, slice |-> sl]
        ELSE [panic |-> FALSE,
              slice |-> [elems |-> sl.elems \o new, cap |-> capacity]]

AppendFrame ==
    UNCHANGED <<codecVars, cmdVars, assignVars, mergeVars, nearestVars, report,
                lineNo, headerLine, allInputs, searchGenomes, previous,
                bin_unique, verbose, recNo, outputWrites, outputWrites_unq,
                SequenceTracker, BasesInMemory, calls>>

InitAppend ==
    CodecIdle /\ CmdIdle /\ AssignIdle /\ MergeIdle /\ NearestIdle /\ BinIdle

\* a slice of n values with room for `room` more, and m new values
DrawAppend ==
    /\ binPc = "idle"
    /\ \E n \in 0..MaxSliceLen, room \in 0..MaxSliceLen, m \in 0..MaxSliceLen :
          /\ slice' = [elems |-> [i \in 1..n |-> i], cap |-> n + room]
          /\ new_value' = [i \in 1..m |-> n + i]
    /\ binPc' = "append"
    /\ UNCHANGED appended
    /\ AppendFrame

DoAppend ==
    /\ binPc = "append"
    /\ appended' = AppendSlice(slice, new_value)
    /\ binPc' = "appended"
    /\ UNCHANGED <<slice, new_value>>
    /\ AppendFrame

NextAppend == DrawAppend \/ DoAppend

SpecAppend == InitAppend /\ [][NextAppend]_vars

\* C19: for every slice of length n and capacity c >= n and every m >= 0 new
\* values, Append does not fail and returns the n old values followed by
\* the m new ones
AppendIsStandard ==
    binPc = "appended"
    => /\ ~appended.panic
       /\ Len(appended.slice.elems) = Len(slice.elems) + Len(new_value)
       /\ appended.slice.elems = slice.elems \o new_value

-----------------------------------------------------------------------------
(* cmd/bin.go: binCmd.Run, IdentifyBestHit, WriteBinnedReads                 *)

UnspecifiedBin == "NotMapped"

UniqueBinned == "Unique"

AllBinned == "All"

\* the progress and flush check runs every log_read_interval records (1000
\* in the source) and flushes from FlushBasesThreshold bases on (4 000 000 000
\* in the source); both are scaled to two reads of one base
log_read_interval == 2

FlushBasesThreshold == 2

Queries == {"r1", "r2"}

Genomes == {"g1", "g2"}

HeaderText == [kind |-> "header", query |-> "query", sgenome |-> "sgenome"]

EmptyText == [kind |-> "empty", query |-> "", sgenome |-> ""]

RowTexts == {[kind |-> "row", query |-> q, sgenome |-> g] : q \in Queries, g \in Genomes}

\* the reports: a header only as the first line, empty lines anywhere
Reports ==
    UNION {{rp \in [1..n -> RowTexts \cup {HeaderText, EmptyText}] :
                \A i \in 2..n : rp[i] # HeaderText} : n \in 0..MaxReportLines}

\* the records of the input file, by ID, one base each; r3 is in no report
records == <<"r1", "r2", "r3">>

\* scanner.Text() after the i-th Scan
Text(i) == IF i <= Len(report) THEN report[i] ELSE EmptyText

\* CheckRegex(line, ShortHeader) || CheckRegex(line, LongHeader)
CheckRegex(line) == line.kind = "header"

\* ProcessInput(line): the fields of the row
ProcessInput(line) == [query |-> line.query, sgenome |-> line.sgenome]

\* CreateOutputGroups: an empty slice of capacity 10 per genome and one for
\* the unspecified bin
CreateOutputGroups(genomes) == [g \in genomes \cup {UnspecifiedBin} |-> MakeSlice(10)]

InitBin ==
    /\ CodecIdle /\ CmdIdle /\ AssignIdle /\ MergeIdle /\ NearestIdle /\ AppendIdle
    /\ binPc = "first"
    /\ report \in Reports
    /\ lineNo = 0
    /\ headerLine = FALSE
    /\ allInputs = [q \in Queries |-> <<>>]
    /\ searchGenomes = {}
    /\ previous = Nil
    /\ bin_unique \in BOOLEAN
    /\ verbose \in BOOLEAN
    /\ recNo = 0
    /\ outputWrites = <<>>
    /\ outputWrites_unq = <<>>
    /\ SequenceTracker = 0
    /\ BasesInMemory = 0
    /\ calls = <<>>

BinFrame ==
    UNCHANGED <<codecVars, cmdVars, assignVars, mergeVars, nearestVars, report,
                bin_unique, verbose, slice, new_value, appended>>

\* lines 116-123: the first line is read and tested for a header
ScanFirst ==
    /\ binPc = "first"
    /\ lineNo' = IF Len(report) >= 1 THEN 1 ELSE 0
    /\ headerLine' = CheckRegex(Text(1))
    /\ binPc' = IF CheckRegex(Text(1)) THEN "second" ELSE "rows"
    /\ UNCHANGED <<allInputs, searchGenomes, previous, recNo, outputWrites,
                   outputWrites_unq, SequenceTracker, BasesInMemory, calls>>
    /\ BinFrame

\* lines 128-140: behind a header the next line is the first row
ScanSecond ==
    /\ binPc = "second"
    /\ lineNo' = IF Len(report) > lineNo THEN lineNo + 1 ELSE lineNo
    /\ IF Text(lineNo + 1) = EmptyText
       THEN /\ binPc' = "exit"
            /\ UNCHANGED <<allInputs, searchGenomes, previous>>
       ELSE /\ binPc' = "rows"
            /\ searchGenomes' = searchGenomes \cup {ProcessInput(Text(lineNo + 1)).sgenome}
            /\ allInputs' = [allInputs EXCEPT ![ProcessInput(Text(lineNo + 1)).query] =
                                <<ProcessInput(Text(lineNo + 1))>>]
            /\ previous' = ProcessInput(Text(lineNo + 1))
    /\ UNCHANGED <<headerLine, recNo, outputWrites, outputWrites_unq,
                   SequenceTracker, BasesInMemory, calls>>
    /\ BinFrame

\* lines 148-166: one turn of the loop over the remaining lines
ScanRow ==
    /\ binPc = "rows"
    /\ lineNo < Len(report)
    /\ lineNo' = lineNo + 1
    /\ LET line == Text(lineNo + 1)
           search_val == ProcessInput(Text(lineNo + 1))
       IN  IF line = EmptyText
           THEN UNCHANGED <<binPc, allInputs, searchGenomes, previous>>
           ELSE /\ searchGenomes' = searchGenomes \cup {search_val.sgenome}
                /\ IF previous = Nil
                   THEN \* previous.query on a nil pointer
                        /\ binPc' = "panic"
                        /\ UNCHANGED <<allInputs, previous>>
                   ELSE IF previous.query # search_val.query
                   THEN /\ allInputs' = [allInputs EXCEPT ![search_val.query] =
                                            <<search_val>>]
                        /\ previous' = search_val
                        /\ binPc' = binPc
                   ELSE /\ allInputs' = [allInputs EXCEPT ![search_val.query] =
                                            @ \o <<search_val>>]
                        /\ UNCHANGED <<binPc, previous>>
    /\ UNCHANGED <<headerLine, recNo, outputWrites, outputWrites_unq,
                   SequenceTracker, BasesInMemory, calls>>
    /\ BinFrame

\* lines 167-189: the report is read; the bins of the input file are made
OpenInput ==
    /\ binPc = "rows"
    /\ lineNo >= Len(report)
    /\ binPc' = "assign"
    /\ outputWrites' = CreateOutputGroups(searchGenomes)
    /\ outputWrites_unq' = CreateOutputGroups(searchGenomes)
    /\ UNCHANGED <<lineNo, headerLine, allInputs, searchGenomes, previous, recNo,
                   SequenceTracker, BasesInMemory, calls>>
    /\ BinFrame

\* IdentifyBestHit, line 323: the i-th row names another genome than the row
\* before it (previous starts as the empty string)
StartsRun(search_output, i) ==
    i = 1 \/ search_output[i].sgenome # search_output[i - 1].sgenome

RECURSIVE AppendTimes(_, _, _)
\* Append(slice, read), times over
AppendTimes(sl, read, times) ==
    IF times = 0 THEN sl
    ELSE AppendTimes(AppendSlice(sl, <<read>>).slice, read, times - 1)

IdentifyBestHitNoFirstRun(search_output, output_genomes, output_genomes_unq, read, id_best) ==
    LET runs == {i \in 2..Len(search_output) : StartsRun(search_output, i)}
        sgenomes_out == Cardinality(runs)
        last == search_output[Len(search_output)].sgenome
    IN  [all |-> [g \in DOMAIN output_genomes |->
                    AppendTimes(output_genomes[g], read,
                        Cardinality({i \in runs : search_output[i].sgenome = g}))],
         unq |-> IF sgenomes_out = 1 /\ id_best
                 THEN [output_genomes_unq EXCEPT ![last] = AppendSlice(@, <<read>>).slice]
                 ELSE output_genomes_unq]

\* func IdentifyBestHit: the read goes to the bin of every row that starts a
\* run of one genome, and to the unique bin of the last genome when there was
\* one run and id_best is set
IdentifyBestHit(search_output, output_genomes, output_genomes_unq, read, id_best) ==
    LET runs == {i \in 1..Len(search_output) : StartsRun(search_output, i)}
        sgenomes_out == Cardinality(runs)
        last == search_output[Len(search_output)].sgenome
    IN  [all |-> [g \in DOMAIN output_genomes |->
                    AppendTimes(output_genomes[g], read,
                        Cardinality({i \in runs : search_output[i].sgenome = g}))],
         unq |-> IF sgenomes_out = 1 /\ id_best
                 THEN [output_genomes_unq EXCEPT ![last] = AppendSlice(@, <<read>>).slice]
                 ELSE output_genomes_unq]

\* func WriteBinnedReads: every record of every bin is written; clear_records
\* sets the loop's own copies val and record to nil, the map keeps its slices
WriteBinnedReads(outputs, nested_string, clear_records) ==
    [emitted |-> [nested |-> nested_string, clear |-> clear_records,
                  bins |-> [key \in DOMAIN outputs |-> outputs[key].elems]],
     outputs |-> outputs]

\* lines 217-222 and 233-238: the calls of one write of the bins
WriteCalls(unq, all) ==
    IF bin_unique
    THEN <<WriteBinnedReads(unq, UniqueBinned, FALSE).emitted,
           WriteBinnedReads(all, AllBinned, TRUE).emitted>>
    ELSE <<WriteBinnedReads(all, "", TRUE).emitted>>

\* lines 191-226: one record of the input file
ReadRecord ==
    /\ binPc \in {"assign", "flushed"}
    /\ recNo < Len(records)
    /\ recNo' = recNo + 1
    /\ SequenceTracker' = SequenceTracker + 1
    /\ LET fastq_id == records[recNo + 1]
           ok == fastq_id \in Queries /\ allInputs[fastq_id] # <<>>
           hit == IdentifyBestHit(allInputs[fastq_id], outputWrites,
                                  outputWrites_unq, fastq_id, bin_unique)
           all1 == IF ok THEN hit.all
                   ELSE [outputWrites EXCEPT ![UnspecifiedBin] =
                            AppendSlice(@, <<fastq_id>>).slice]
           unq1 == IF ok THEN hit.unq ELSE outputWrites_unq
           bases == BasesInMemory + 1
           flush == /\ (SequenceTracker + 1) % log_read_interval = 0
                    /\ verbose
                    /\ bases >= FlushBasesThreshold
       IN  /\ outputWrites' = WriteBinnedReads(all1, AllBinned, TRUE).outputs
           /\ outputWrites_unq' = WriteBinnedReads(unq1, UniqueBinned, FALSE).outputs
           /\ calls' = IF flush THEN calls \o WriteCalls(unq1, all1) ELSE calls
           /\ BasesInMemory' = IF flush THEN 0 ELSE bases
           /\ binPc' = IF flush THEN "flushed" ELSE "assign"
    /\ UNCHANGED <<lineNo, headerLine, allInputs, searchGenomes, previous>>
    /\ BinFrame

\* lines 228-239: the end of the input file, the final write
FinalWrite ==
    /\ binPc \in {"assign", "flushed"}
    /\ recNo = Len(records)
    /\ calls' = calls \o WriteCalls(outputWrites_unq, outputWrites)
    /\ BasesInMemory' = 0
    /\ binPc' = "done"
    /\ UNCHANGED <<lineNo, headerLine, allInputs, searchGenomes, previous, recNo,
                   outputWrites, outputWrites_unq, SequenceTracker>>
    /\ BinFrame

NextBin ==
    \/ ScanFirst
    \/ ScanSecond
    \/ ScanRow
    \/ OpenInput
    \/ ReadRecord
    \/ FinalWrite

SpecBin == InitBin /\ [][NextBin]_vars

\* the data rows of the report, and those of one query
DataRows == {ProcessInput(report[i]) : i \in {j \in 1..Len(report) : report[j].kind = "row"}}

RowsFor(r) == {row \in DataRows : row.query = r}

\* the report is read and the run went on
ReportRead == binPc \in {"assign", "flushed", "done"}

\* how often read r stands in the bin of g
TimesIn(outputs, g, r) ==
    IF g \in DOMAIN outputs
    THEN Cardinality({i \in 1..Len(outputs[g].elems) : outputs[g].elems[i] = r})
    ELSE 0

\* C17: reading the report never dereferences a missing previous row, and
\* once the report is read every data row stands in allInputs under its query
\* and its sgenome is in searchGenomes, with or without a header line.
ReportRecorded ==
    /\ binPc # "panic"
    /\ ReportRead =>
          \A row \in DataRows :
              /\ \E i \in 1..Len(allInputs[row.query]) : allInputs[row.query][i] = row
              /\ row.sgenome \in searchGenomes

\* C15: with bin-unique-reads, at the end of the run read r stands in the
\* Unique bin of genome g exactly when the report has a row for r and every
\* row of the report for r names g.
UniqueBinExact ==
    (binPc = "done" /\ bin_unique) =>
        \A r \in Queries, g \in Genomes :
            TimesIn(outputWrites_unq, g, r) >= 1
                <=> (RowsFor(r) # {} /\ \A row \in RowsFor(r) : row.sgenome = g)

\* C16: for a report with a header line, at the end of the run read r stands
\* in the All bin of genome g exactly once when the report has a row (r, g),
\* and not at all otherwise.
AllBinExactlyOnce ==
    (binPc = "done" /\ Len(report) >= 1 /\ CheckRegex(report[1])) =>
        \A r \in Queries, g \in Genomes :
            TimesIn(outputWrites, g, r)
                = IF [query |-> r, sgenome |-> g] \in DataRows THEN 1 ELSE 0

\* C18: after a flush the bin map holds none of the records the flush wrote,
\* and at the end of the run every read of a bin was written by exactly one
\* WriteBinnedReads call with clear_records set.
FlushReleases ==
    /\ binPc = "flushed" =>
          \A g \in DOMAIN outputWrites : outputWrites[g].elems = <<>>
    /\ binPc = "done" =>
          \A g \in DOMAIN outputWrites : \A r \in {records[i] : i \in 1..Len(records)} :
              TimesIn(outputWrites, g, r) >= 1 =>
                  Cardinality({i \in 1..Len(calls) :
                      /\ calls[i].clear
                      /\ \E j \in 1..Len(calls[i].bins[g]) : calls[i].bins[g][j] = r}) = 1

\* the records read so far
RecordsRead == {records[i] : i \in 1..recNo}

NoFilesLeavesDirUntouched ==
    (pc = "exit" /\ exitErr.kind = "no-files") => DirUntouched

=============================================================================
